---------------------------- MODULE Spec2Model ----------------------------
(***************************************************************************)
(* Model of the topographic-parameter pipeline of                          *)
(* 03_skyviewfactor_computation.ipynb: the stencil convolutions, the       *)
(* mean squared slope, the typical width, the two empirical formulas, the  *)
(* attribute-mode pass over the coarse cells, the dropna that follows it   *)
(* and the raster-mode loop that fills the two output rasters.             *)
(*                                                                         *)
(* Arrays are records [n, m, v]: n rows, m columns, v a function on        *)
(* (0..n-1) \X (0..m-1).  Elevations are integers.  A floating-point       *)
(* value is a record [k, a, b]: k = "nan" is NaN, k = "inf" is +infinity,  *)
(* k = "fin" is a finite number; a and b are pairs <<numerator,            *)
(* denominator>> of reduced fractions that identify the finite number      *)
(* exactly (for mu the fraction a is mu^2, for the Laplacian a is its      *)
(* value, for F_sky and X_dsc_topo a and b are the arguments the           *)
(* transcendental formula was evaluated on).                               *)
(***************************************************************************)
EXTENDS Integers, Sequences, FiniteSets, TLC

VARIABLES dem, hrdps_cells, pc, i, F_array, X_array, nabla_array, mu_res

vars == <<dem, hrdps_cells, pc, i, F_array, X_array, nabla_array, mu_res>>

(***************************************************************************)
(* Bounds of the model.                                                    *)
(***************************************************************************)
\* Shape of the elevation grid of the pipeline.
Rows == 6
Cols == 6
\* Half sizes of the two windows, scaled down from 12 and 62: the small
\* window is rows r-SmallHalf .. r+SmallHalf, the large one r-LargeHalf ..
\* r+LargeHalf.
SmallHalf == 1
LargeHalf == 2
\* Longest coarse cell collection.
MaxCells == 3
\* Largest side of an input array of the function specification.
MaxWin == 4
\* Largest slope of a ramp.
MaxSlope == 3
\* Largest numerator and denominator of a typical width, in units of L.
MaxXi == 3

(***************************************************************************)
(* Program constants.                                                      *)
(***************************************************************************)
delta_x == 20
L == 2500

(***************************************************************************)
(* Floating point values.                                                  *)
(***************************************************************************)
RECURSIVE Gcd(_, _)
Gcd(x, y) == IF y = 0 THEN x ELSE Gcd(y, x % y)

Abs(x) == IF x < 0 THEN 0 - x ELSE x

\* The reduced fraction num/den (den > 0).
Frac(num, den) ==
    LET g == Gcd(Abs(num), den)
    IN  <<num \div g, den \div g>>

NoFrac == <<0, 0>>
NaN == [k |-> "nan", a |-> NoFrac, b |-> NoFrac]
Inf == [k |-> "inf", a |-> NoFrac, b |-> NoFrac]
Fin(a, b) == [k |-> "fin", a |-> a, b |-> b]
IsNaN(x) == x.k = "nan"
IsZero(x) == x.k = "fin" /\ x.a[1] = 0

(***************************************************************************)
(* Arrays, numpy slicing and scipy.signal.convolve2d.                      *)
(***************************************************************************)
Idx(n, m) == (0 .. (n - 1)) \X (0 .. (m - 1))

\* Python's normalisation of one end of a slice on an axis of length len.
SliceEnd(e, len) ==
    LET s == IF e < 0 THEN e + len ELSE e
    IN  IF s < 0 THEN 0 ELSE IF s > len THEN len ELSE s

\* The index range [lo, hi) that full_array[start:stop] selects.
SliceLo(start, len) == SliceEnd(start, len)
SliceHi(start, stop, len) ==
    IF SliceEnd(stop, len) < SliceEnd(start, len) THEN SliceEnd(start, len)
    ELSE SliceEnd(stop, len)

\* arr[r0:r1, c0:c1]
Slice2D(arr, r0, r1, c0, c1) ==
    LET rlo == SliceLo(r0, arr.n)
        rhi == SliceHi(r0, r1, arr.n)
        clo == SliceLo(c0, arr.m)
        chi == SliceHi(c0, c1, arr.m)
    IN  [n |-> rhi - rlo, m |-> chi - clo,
         v |-> [p \in Idx(rhi - rlo, chi - clo) |-> arr.v[<<p[1] + rlo, p[2] + clo>>]]]

\* The pixels of an n x m array that target[r0:r1, c0:c1] = ... assigns.
SliceBlock(n, m, r0, r1, c0, c1) ==
    (SliceLo(r0, n) .. (SliceHi(r0, r1, n) - 1)) \X (SliceLo(c0, m) .. (SliceHi(c0, c1, m) - 1))

\* The input read at (r, c), zero outside the array (fillvalue = 0).
Padded(arr, r, c) ==
    IF r >= 0 /\ r < arr.n /\ c >= 0 /\ c < arr.m THEN arr.v[<<r, c>>] ELSE 0

\* One output element of the full linear convolution with a 3x3 kernel.
ConvFull(arr, kern, p, q) ==
    LET t(a, b) == kern[a + 1][b + 1] * Padded(arr, p - a, q - b)
    IN  t(0, 0) + t(0, 1) + t(0, 2) + t(1, 0) + t(1, 1) + t(1, 2) + t(2, 0) + t(2, 1) + t(2, 2)

\* signal.convolve2d(arr, kernel, mode='same')
Convolve2dSame(arr, kern) ==
    [n |-> arr.n, m |-> arr.m,
     v |-> [p \in Idx(arr.n, arr.m) |-> ConvFull(arr, kern, p[1] + 1, p[2] + 1)]]

\* signal.convolve2d(arr, kernel, mode='valid'), for an input at least 3x3.
Convolve2dValid(arr, kern) ==
    [n |-> arr.n - 2, m |-> arr.m - 2,
     v |-> [p \in Idx(arr.n - 2, arr.m - 2) |-> ConvFull(arr, kern, p[1] + 2, p[2] + 2)]]

\* The sum of the elements of an n x m array given by its function f, taken
\* in row-major order from element k on.
RECURSIVE SumFrom(_, _, _, _)
SumFrom(f, n, m, k) ==
    IF k >= n * m THEN 0
    ELSE f[<<k \div m, k % m>>] + SumFrom(f, n, m, k + 1)

\* np.sum of an n x m array.
SumOver(n, m, f) == SumFrom(f, n, m, 0)

(***************************************************************************)
(* compute_mean_squared_slope                                              *)
(***************************************************************************)
kernel_1 == <<<<0, 0, 0>>, <<0, 1, 0>>, <<0, -1, 0>>>>
kernel_2 == <<<<0, 0, 0>>, <<0, 1, -1>>, <<0, 0, 0>>>>

\* member_1 cropped as [:-1, :-1]: the first row, computed on padding, is kept.
member_1_padded_row(input_array) ==
    LET c == Convolve2dSame(input_array, kernel_1)
    IN  Slice2D(c, 0, -1, 0, -1)

\* member_1 = convolve2d(input_array, kernel_1, mode='same')[1:, :-1]
member_1(input_array) ==
    LET c == Convolve2dSame(input_array, kernel_1)
    IN  Slice2D(c, 1, c.n, 0, -1)

\* member_2 cropped as [:-1, :-1]: the first column, computed on padding, is
\* kept.
member_2_padded_col(input_array) ==
    LET c == Convolve2dSame(input_array, kernel_2)
    IN  Slice2D(c, 0, -1, 0, -1)

\* member_2 = convolve2d(input_array, kernel_2, mode='same')[:-1, 1:]
member_2(input_array) ==
    LET c == Convolve2dSame(input_array, kernel_2)
    IN  Slice2D(c, 0, -1, 1, c.m)

\* mu = sqrt(mean(member_1^2 + member_2^2)) / (delta_x * sqrt(2)); the mean
\* of an empty array is NaN.  The result is identified by mu^2.
compute_mean_squared_slope(input_array, dx) ==
    LET m1 == member_1(input_array)
        m2 == member_2(input_array)
        cnt == m1.n * m1.m
        sq == [p \in Idx(m1.n, m1.m) |-> m1.v[p] * m1.v[p] + m2.v[p] * m2.v[p]]
    IN  IF cnt = 0 THEN NaN
        ELSE Fin(Frac(SumOver(m1.n, m1.m, sq), cnt * dx * dx * 2), NoFrac)

(***************************************************************************)
(* compute_elevation_laplacien                                             *)
(***************************************************************************)
kernel == <<<<0, 1, 0>>, <<1, -4, 1>>, <<0, 1, 0>>>>

\* The Laplacian by a same-size convolution: the border is computed on padding.
compute_elevation_laplacien_same(input_array, dx) ==
    LET nabla_z_array == Convolve2dSame(input_array, kernel)
    IN  [n |-> input_array.n, m |-> input_array.m,
         v |-> [p \in Idx(input_array.n, input_array.m) |->
                  Fin(Frac(nabla_z_array.v[p] * dx, dx * dx * 4), NoFrac)]]

\* nabla_z_array / delta_x^2, embedded in [1:-1, 1:-1] of a NaN array of the
\* input's shape, then times delta_x / 4.
compute_elevation_laplacien(input_array, dx) ==
    LET nabla_z_array == Convolve2dValid(input_array, kernel)
        inner == SliceBlock(input_array.n, input_array.m, 1, -1, 1, -1)
    IN  [n |-> input_array.n, m |-> input_array.m,
         v |-> [p \in Idx(input_array.n, input_array.m) |->
                  IF p \in inner
                  THEN Fin(Frac(nabla_z_array.v[<<p[1] - 1, p[2] - 1>>] * dx, dx * dx * 4), NoFrac)
                  ELSE NaN]]

\* convolve2d(mode='valid') of an input smaller than the kernel either raises
\* or returns an array that does not fit [1:-1, 1:-1]: ValueError.
LaplacienRaises(input_array) == input_array.n < 3 \/ input_array.m < 3

(***************************************************************************)
(* compute_typical_width, compute_sky_view_factor,                         *)
(* compute_downscaling_factor                                              *)
(***************************************************************************)
\* np.std(dem_array), identified by the variance
\* (N * sum z^2 - (sum z)^2) / N^2; NaN for an empty array.
Std(arr) ==
    LET N == arr.n * arr.m
        s1 == SumOver(arr.n, arr.m, arr.v)
        s2 == SumOver(arr.n, arr.m, [p \in Idx(arr.n, arr.m) |-> arr.v[p] * arr.v[p]])
    IN  IF N = 0 THEN NaN ELSE Fin(Frac(N * s2 - s1 * s1, N * N), NoFrac)

\* xi = elevation_standard_deviation * sqrt(2) / mu, in numpy float64
\* arithmetic: x / 0.0 is inf for x > 0 and NaN for x = 0, and nothing is
\* raised.  The result is identified by xi^2 = 2 sigma^2 / mu^2.
compute_typical_width(mu, elevation_standard_deviation) ==
    IF IsNaN(mu) \/ IsNaN(elevation_standard_deviation) THEN NaN
    ELSE IF IsZero(mu)
         THEN IF IsZero(elevation_standard_deviation) THEN NaN ELSE Inf
         ELSE Fin(Frac(2 * elevation_standard_deviation.a[1] * mu.a[2],
                       elevation_standard_deviation.a[2] * mu.a[1]), NoFrac)

\* F_sky = 1 - (1 - 1 / (1 + a mu^b)^c) * exp(-d (L / xi)^(-2)), evaluated
\* factor by factor on the classes of the operands.
\* g = 1 - 1 / (1 + a mu^b)^c : 0 for mu = 0, in (0, 1) for mu > 0.
SkyG(mu) == IF IsNaN(mu) THEN "nan" ELSE IF IsZero(mu) THEN "zero" ELSE "unit"
\* L / xi
SkyRatio(xi) ==
    IF IsNaN(xi) THEN "nan" ELSE IF xi.k = "inf" THEN "zero"
    ELSE IF IsZero(xi) THEN "inf" ELSE "pos"
\* exp(-d * ratio^(-2)) : 0.0^(-2) is inf, inf^(-2) is 0.
SkyExp(ratio) ==
    CASE ratio = "nan" -> "nan"
      [] ratio = "zero" -> "zero"
      [] ratio = "inf" -> "one"
      [] OTHER -> "unit"
\* g * e
SkyProd(g, e) ==
    IF g = "nan" \/ e = "nan" THEN "nan"
    ELSE IF g = "zero" \/ e = "zero" THEN "zero" ELSE "unit"

\* The value is NaN, or the finite number identified by (mu^2, xi^2); it is
\* exactly 1.0 when the product g * e is 0.
compute_sky_view_factor(mu, xi, LL) ==
    IF SkyProd(SkyG(mu), SkyExp(SkyRatio(xi))) = "nan" THEN NaN
    ELSE Fin(mu.a, xi.a)

\* d = 5.951, as the fraction 5951 / 1000.
d == <<5951, 1000>>

\* Minus infinity, the value of -d * inf.
NegInf == [k |-> "ninf", a |-> NoFrac, b |-> NoFrac]

\* (L / xi)^2 for a finite xi > 0, as a fraction.
SkyRatioSquared(xi, LL) == Frac(LL * LL * xi.a[2], xi.a[1])

\* The power taken with the exponent 2 in place of -2.
SkyPower_plus2(ratio2) == ratio2

\* (L / xi) ** (-2), from (L / xi)^2.
SkyPower(ratio2) == Frac(ratio2[2], ratio2[1])

\* The argument of the exponential, -d * (L / xi) ** (-2), computed exactly:
\* L / inf is 0.0 and 0.0 ** (-2) is inf; L / 0.0 is inf and inf ** (-2) is 0.
SkyExponent(xi, LL) ==
    CASE SkyRatio(xi) = "nan" -> NaN
      [] SkyRatio(xi) = "zero" -> NegInf
      [] SkyRatio(xi) = "inf" -> Fin(<<0, 1>>, NoFrac)
      [] OTHER -> LET pw == SkyPower(SkyRatioSquared(xi, LL))
                  IN  Fin(Frac((0 - d[1]) * pw[1], d[2] * pw[2]), NoFrac)

\* The range of np.exp(E): 0 for E = -inf, 1 for E = 0, inside (0, 1) for
\* E < 0, above 1 for E > 0.
SkyExpRange(E) ==
    CASE E.k = "nan" -> "nan"
      [] E.k = "ninf" -> "zero"
      [] E.a[1] = 0 -> "one"
      [] E.a[1] < 0 -> "unit"
      [] OTHER -> "above"

\* The range of F_sky = 1 - g * e: exactly 1 when g * e is 0, inside (0, 1)
\* when g is in (0, 1) and e in (0, 1]; with e above 1 the product is not
\* bounded by 1.
SkyRange(mu, xi, LL) ==
    LET g == SkyG(mu)
        e == SkyExpRange(SkyExponent(xi, LL))
    IN  CASE g = "nan" \/ e = "nan" -> "nan"
          [] g = "zero" \/ e = "zero" -> "one"
          [] e = "above" -> "unbounded"
          [] OTHER -> "unit"

\* The class of the result of +, -, * of two floats, and of x / y with
\* y >= 1: NaN when an operand is NaN, finite for finite operands.
FloatOp(x, y) == IF x = "nan" \/ y = "nan" THEN "nan" ELSE "fin"

\* The downscaling factor with a NaN laplacian replaced by a number.
compute_downscaling_factor_nan_to_num(elevation_laplacian, mu) ==
    IF IsNaN(mu) THEN NaN
    ELSE Fin(IF IsNaN(elevation_laplacian) THEN <<0, 1>> ELSE elevation_laplacian.a, mu.a)

\* x_dsc_topo = (1 - (a' lap) / (1 + a' |lap|^b')) * c' / (1 + d' + mu^e'):
\* every operation propagates NaN, both denominators are at least 1.
\* A finite result is identified by (laplacian, mu^2).
compute_downscaling_factor(elevation_laplacian, mu) ==
    LET lap == elevation_laplacian.k
        num == FloatOp("fin", lap)
        den == FloatOp("fin", FloatOp("fin", lap))
        left == FloatOp("fin", FloatOp(num, den))
        right == FloatOp("fin", FloatOp("fin", mu.k))
    IN  IF FloatOp(left, right) = "nan" THEN NaN
        ELSE Fin(elevation_laplacian.a, mu.a)

\* np.vectorize(compute_downscaling_factor) raises ValueError on an input of
\* size 0 (no otypes are set).
VectorizeRaises(arr) == arr.n * arr.m = 0

compute_downscaling_factor_vectorized(arr, mu) ==
    [n |-> arr.n, m |-> arr.m,
     v |-> [p \in Idx(arr.n, arr.m) |-> compute_downscaling_factor(arr.v[p], mu)]]

(***************************************************************************)
(* The per-cell wrappers.                                                  *)
(***************************************************************************)
\* A coarse cell before the attribute pass has no mu, xi, F_sky columns.
Unset == [k |-> "unset", a |-> NoFrac, b |-> NoFrac]

\* An output raster is an array [n, m, v], the integer the driver rebinds it
\* to after a failed cell, or not yet created.
Scalar999 == [val |-> -999]
NotCreated == [created |-> FALSE]
IsArray(x) == DOMAIN x = {"n", "m", "v"}

\* dem_array[(r - 12):(r + 13), (c - 12):(c + 13)]
small_window(full_array, center_coordinates) ==
    Slice2D(full_array,
            center_coordinates[1] - SmallHalf, center_coordinates[1] + SmallHalf + 1,
            center_coordinates[2] - SmallHalf, center_coordinates[2] + SmallHalf + 1)

\* full_array[(r - 62):(r + 63), (c - 62):(c + 63)]
subset_array(full_array, center_coordinates) ==
    Slice2D(full_array,
            center_coordinates[1] - LargeHalf, center_coordinates[1] + LargeHalf + 1,
            center_coordinates[2] - LargeHalf, center_coordinates[2] + LargeHalf + 1)

\* The pixels that F_array[(r - 62):(r + 63), (c - 62):(c + 63)] = ... assigns.
target_block(arr, center_coordinates) ==
    SliceBlock(arr.n, arr.m,
               center_coordinates[1] - LargeHalf, center_coordinates[1] + LargeHalf + 1,
               center_coordinates[2] - LargeHalf, center_coordinates[2] + LargeHalf + 1)

\* The row that sky_view_factor_processing_wrapper returns.  Everything is
\* numpy float64 arithmetic, which warns and never raises, so the except
\* branch (a NaN triple) is not taken; an empty window gives the same NaN
\* triple through the mean of an empty array.
sky_view_factor_processing_wrapper(dem_array, gdf_row) ==
    LET array_subset == small_window(dem_array, gdf_row.coords)
        mu == compute_mean_squared_slope(array_subset, delta_x)
        xi == compute_typical_width(mu, Std(dem_array))
        F_sky == compute_sky_view_factor(mu, xi, L)
    IN  [gdf_row EXCEPT !.mu = mu, !.xi = xi, !.F_sky = F_sky]

\* hrdps_cells.dropna(): the rows with a NaN in some column are removed.
HasNaN(gdf_row) == IsNaN(gdf_row.mu) \/ IsNaN(gdf_row.xi) \/ IsNaN(gdf_row.F_sky)
dropna(cells) == SelectSeq(cells, LAMBDA gdf_row : ~HasNaN(gdf_row))

\* arr[block] = value, value a function on the pixels of the block.
AssignBlock(arr, block, value) ==
    [arr EXCEPT !.v = [p \in DOMAIN arr.v |-> IF p \in block THEN value[p] ELSE arr.v[p]]]

\* Whether the try block of downscaling_parameters_processing_wrapper raises:
\* np.vectorize on an empty window, or item assignment on an integer.
TryRaises(gdf_row, F, X, nabla) ==
    \/ VectorizeRaises(subset_array(nabla, gdf_row.coords))
    \/ ~IsArray(F)
    \/ ~IsArray(X)

\* The pair (F_array, X_array) that downscaling_parameters_processing_wrapper
\* returns and the driver loop binds F_array, X_array to.
downscaling_parameters_processing_wrapper(gdf_row, dem_array, F, X, nabla) ==
    LET array_coords == gdf_row.coords
        dem_array_subset == subset_array(dem_array, array_coords)
        nabla_array_subset == subset_array(nabla, array_coords)
        mu == compute_mean_squared_slope(dem_array_subset, delta_x)
        xi == compute_typical_width(mu, Std(dem_array))
        F_sky == compute_sky_view_factor(mu, xi, L)
        X_dsc_topo_subarray == compute_downscaling_factor_vectorized(nabla_array_subset, mu)
        block == target_block(dem_array, array_coords)
        lo == <<SliceLo(array_coords[1] - LargeHalf, dem_array.n),
                SliceLo(array_coords[2] - LargeHalf, dem_array.m)>>
    IN  IF TryRaises(gdf_row, F, X, nabla)
        THEN <<Scalar999, Scalar999>>
        ELSE <<AssignBlock(F, block, [p \in block |-> F_sky]),
               AssignBlock(X, block,
                   [p \in block |-> X_dsc_topo_subarray.v[<<p[1] - lo[1], p[2] - lo[2]>>]])>>

(***************************************************************************)
(* Inputs.                                                                 *)
(***************************************************************************)
\* Elevation arrays: constant, a ramp along the rows, a ramp along the
\* columns, flat but for a raised last row, a paraboloid.
Flat(n, m, c) == [n |-> n, m |-> m, v |-> [p \in Idx(n, m) |-> c]]
RowRamp(n, m, s) == [n |-> n, m |-> m, v |-> [p \in Idx(n, m) |-> s * p[1]]]
ColRamp(n, m, s) == [n |-> n, m |-> m, v |-> [p \in Idx(n, m) |-> s * p[2]]]
Plateau(n, m) == [n |-> n, m |-> m, v |-> [p \in Idx(n, m) |-> IF p[1] = n - 1 THEN 1 ELSE 0]]
Bowl(n, m) == [n |-> n, m |-> m, v |-> [p \in Idx(n, m) |-> p[1] * p[1] + p[2] * p[2]]]

\* The elevation grids of the pipeline.
DemChoices == {Flat(Rows, Cols, MaxSlope), Plateau(Rows, Cols), Bowl(Rows, Cols)}

\* Grid indices that dem_raster.index gives for a centroid: rasterio does not
\* check them against the grid.  Rows: above the grid far enough to wrap
\* around, too close to the top edge for the large window, the first and the
\* last row where the large window fits, one row too close to the bottom edge.
CentroidRows == {LargeHalf - Rows, SmallHalf, LargeHalf, Rows - LargeHalf - 1, Rows - LargeHalf}

\* Each of these rows in a column where the large window fits, and one cell a
\* column too close to the right edge.
CentroidCoords == (CentroidRows \X {LargeHalf}) \cup {<<LargeHalf, Cols - LargeHalf>>}

NewCell(station, coords) ==
    [Station |-> station, coords |-> coords, mu |-> Unset, xi |-> Unset, F_sky |-> Unset]

CellCollections ==
    UNION {{[k \in 1 .. len |-> NewCell(k, f[k])] : f \in [1 .. len -> CentroidCoords]}
           : len \in 0 .. MaxCells}

\* The input arrays of the function specification.
FnInputs ==
    UNION {{RowRamp(n, m, s) : s \in (0 - MaxSlope) .. MaxSlope}
           \cup {ColRamp(n, m, s) : s \in (0 - MaxSlope) .. MaxSlope}
           \cup {Flat(n, m, c) : c \in 1 .. MaxSlope}
           \cup {Bowl(n, m), Plateau(n, m)}
           : <<n, m>> \in (1 .. MaxWin) \X (1 .. MaxWin)}

(***************************************************************************)
(* The pipeline: attribute pass, dropna, raster pass.                      *)
(***************************************************************************)
Init ==
    /\ dem \in DemChoices
    /\ hrdps_cells \in CellCollections
    /\ pc = "attribute"
    /\ i = 0
    /\ F_array = NotCreated
    /\ X_array = NotCreated
    /\ nabla_array = NotCreated
    /\ mu_res = Unset

\* hrdps_cells.apply(lambda x : sky_view_factor_processing_wrapper(dem, x), axis=1),
\* one row at a time.
AttributeStep ==
    /\ pc = "attribute"
    /\ i < Len(hrdps_cells)
    /\ hrdps_cells' = [hrdps_cells EXCEPT
                         ![i + 1] = sky_view_factor_processing_wrapper(dem, hrdps_cells[i + 1])]
    /\ i' = i + 1
    /\ UNCHANGED <<dem, pc, F_array, X_array, nabla_array, mu_res>>

\* The save cell after the apply: hrdps_cells.dropna(inplace=True).
SaveAttributes ==
    /\ pc = "attribute"
    /\ i = Len(hrdps_cells)
    /\ hrdps_cells' = dropna(hrdps_cells)
    /\ pc' = "raster_init"
    /\ UNCHANGED <<dem, i, F_array, X_array, nabla_array, mu_res>>

\* F_array, X_array = NaN arrays of the grid's shape; nabla_array = the
\* Laplacian of the grid.
RasterInit ==
    /\ pc = "raster_init"
    /\ F_array' = [n |-> dem.n, m |-> dem.m, v |-> [p \in Idx(dem.n, dem.m) |-> NaN]]
    /\ X_array' = [n |-> dem.n, m |-> dem.m, v |-> [p \in Idx(dem.n, dem.m) |-> NaN]]
    /\ nabla_array' = compute_elevation_laplacien(dem, delta_x)
    /\ i' = 0
    /\ pc' = "raster"
    /\ UNCHANGED <<dem, hrdps_cells, mu_res>>

\* One iteration of the driver loop:
\* F_array, X_array = downscaling_parameters_processing_wrapper(...)
RasterStep ==
    /\ pc = "raster"
    /\ i < Len(hrdps_cells)
    /\ LET res == downscaling_parameters_processing_wrapper(
                      hrdps_cells[i + 1], dem, F_array, X_array, nabla_array)
       IN  /\ F_array' = res[1]
           /\ X_array' = res[2]
    /\ i' = i + 1
    /\ UNCHANGED <<dem, hrdps_cells, pc, nabla_array, mu_res>>

\* The loop ends.
RasterDone ==
    /\ pc = "raster"
    /\ i = Len(hrdps_cells)
    /\ pc' = "done"
    /\ UNCHANGED <<dem, hrdps_cells, i, F_array, X_array, nabla_array, mu_res>>

Next == AttributeStep \/ SaveAttributes \/ RasterInit \/ RasterStep \/ RasterDone

Spec == Init /\ [][Next]_vars

(***************************************************************************)
(* The function specification: compute_mean_squared_slope and              *)
(* compute_elevation_laplacien applied to an input array.                  *)
(***************************************************************************)
Raised == [raised |-> "ValueError"]

FnInit ==
    /\ dem \in FnInputs
    /\ hrdps_cells = <<>>
    /\ pc = "fn"
    /\ i = 0
    /\ F_array = NotCreated
    /\ X_array = NotCreated
    /\ nabla_array = NotCreated
    /\ mu_res = Unset

FnSlope ==
    /\ pc = "fn"
    /\ mu_res = Unset
    /\ mu_res' = compute_mean_squared_slope(dem, delta_x)
    /\ UNCHANGED <<dem, hrdps_cells, pc, i, F_array, X_array, nabla_array>>

FnLaplacien ==
    /\ pc = "fn"
    /\ nabla_array = NotCreated
    /\ ~LaplacienRaises(dem)
    /\ nabla_array' = compute_elevation_laplacien(dem, delta_x)
    /\ UNCHANGED <<dem, hrdps_cells, pc, i, F_array, X_array, mu_res>>

FnLaplacienRaises ==
    /\ pc = "fn"
    /\ nabla_array = NotCreated
    /\ LaplacienRaises(dem)
    /\ nabla_array' = Raised
    /\ UNCHANGED <<dem, hrdps_cells, pc, i, F_array, X_array, mu_res>>

FnNext == FnSlope \/ FnLaplacien \/ FnLaplacienRaises

FnSpec == FnInit /\ [][FnNext]_vars

(***************************************************************************)
(* The sky view factor specification: compute_sky_view_factor applied, for  *)
(* the slope of one window, to two typical widths.                         *)
(***************************************************************************)
\* Typical widths n L / k, and the infinite one of a flat window.
XiInputs ==
    {Fin(Frac(n * n * L * L, k * k), NoFrac) : n \in 0 .. MaxXi, k \in 1 .. MaxXi} \cup {Inf}

\* Windows of slope 0 .. MaxSlope.
SkyWindows == {RowRamp(2, 2, s) : s \in 0 .. MaxSlope}

SkyCell(station, xi) == [NewCell(station, <<0, 0>>) EXCEPT !.xi = xi]

SkyInit ==
    /\ dem \in SkyWindows
    /\ hrdps_cells \in {<<SkyCell(1, x), SkyCell(2, y)>> : x \in XiInputs, y \in XiInputs}
    /\ pc = "sky"
    /\ i = 0
    /\ F_array = NotCreated
    /\ X_array = NotCreated
    /\ nabla_array = NotCreated
    /\ mu_res = Unset

SkySlope ==
    /\ pc = "sky"
    /\ mu_res = Unset
    /\ mu_res' = compute_mean_squared_slope(dem, delta_x)
    /\ UNCHANGED <<dem, hrdps_cells, pc, i, F_array, X_array, nabla_array>>

SkyStep ==
    /\ pc = "sky"
    /\ mu_res # Unset
    /\ i < Len(hrdps_cells)
    /\ hrdps_cells' = [hrdps_cells EXCEPT
                         ![i + 1].mu = mu_res,
                         ![i + 1].F_sky = compute_sky_view_factor(mu_res, hrdps_cells[i + 1].xi, L)]
    /\ i' = i + 1
    /\ UNCHANGED <<dem, pc, F_array, X_array, nabla_array, mu_res>>

SkyNext == SkySlope \/ SkyStep

SkySpec == SkyInit /\ [][SkyNext]_vars

(***************************************************************************)
(* Properties.                                                             *)
(***************************************************************************)
\* The 5-point stencil at an interior pixel, from its four in-grid neighbours.
Stencil(arr, p) ==
    arr.v[<<p[1] - 1, p[2]>>] + arr.v[<<p[1] + 1, p[2]>>] + arr.v[<<p[1], p[2] - 1>>]
        + arr.v[<<p[1], p[2] + 1>>] - 4 * arr.v[p]

OnBorder(arr, p) == p[1] = 0 \/ p[1] = arr.n - 1 \/ p[2] = 0 \/ p[2] = arr.m - 1

\* C7: for every elevation grid of at least 3x3 the Laplacian has the shape of
\* the input, every pixel of its one-cell border frame is no-data and every
\* interior pixel holds the 5-point stencil of its in-grid neighbours (scaled
\* by 1 / delta_x^2 and by delta_x / 4, as the formulation has it).
C7_LaplacianBorderNoData ==
    (pc = "fn" /\ IsArray(nabla_array)) =>
        /\ dem.n >= 3 /\ dem.m >= 3
        /\ nabla_array.n = dem.n
        /\ nabla_array.m = dem.m
        /\ DOMAIN nabla_array.v = Idx(dem.n, dem.m)
        /\ \A p \in Idx(dem.n, dem.m) :
              IF OnBorder(dem, p)
              THEN nabla_array.v[p] = NaN
              ELSE /\ nabla_array.v[p].k = "fin"
                   /\ nabla_array.v[p].a[1] * 4 * delta_x = Stencil(dem, p) * nabla_array.v[p].a[2]

\* C7 witness: the Laplacian of a 4x3 bowl, whose interior pixels are not 0.
C7_Witness ==
    /\ pc = "fn"
    /\ dem = Bowl(MaxWin, 3)
    /\ IsArray(nabla_array)
    /\ nabla_array.v[<<0, 1>>] = NaN
    /\ nabla_array.v[<<1, 1>>] = Fin(<<1, delta_x>>, NoFrac)
    /\ nabla_array.v[<<2, 1>>] = Fin(<<1, delta_x>>, NoFrac)

\* C9 as stated: for a window that is a ramp along the rows (elevation s * r at
\* row r), of at least 3x3, mu = s / sqrt(2), that is s >= 0 and 2 mu^2 = s^2.
C9_AsStated ==
    \A s \in (0 - MaxSlope) .. MaxSlope :
        (pc = "fn" /\ mu_res # Unset /\ dem.n >= 3 /\ dem.m >= 3 /\ dem = RowRamp(dem.n, dem.m, s)) =>
            /\ mu_res.k = "fin"
            /\ s >= 0
            /\ 2 * mu_res.a[1] = s * s * mu_res.a[2]

\* C9 amended: for such a ramp mu = |s| / (delta_x * sqrt(2)), that is
\* 2 delta_x^2 mu^2 = s^2, for every window of at least 3x3.
C9_RampSlope ==
    \A s \in (0 - MaxSlope) .. MaxSlope :
        (pc = "fn" /\ mu_res # Unset /\ dem.n >= 3 /\ dem.m >= 3 /\ dem = RowRamp(dem.n, dem.m, s)) =>
            /\ mu_res.k = "fin"
            /\ 2 * delta_x * delta_x * mu_res.a[1] = s * s * mu_res.a[2]

\* C9 witness: the slope of a 3x4 ramp of the largest (negative) slope.
C9_Witness ==
    /\ pc = "fn"
    /\ dem = RowRamp(3, MaxWin, 0 - MaxSlope)
    /\ mu_res = Fin(Frac(MaxSlope * MaxSlope, 2 * delta_x * delta_x), NoFrac)

\* C10: the downscaling factor propagates no-data: in raster mode every pixel
\* of the X_dsc_topo raster whose Laplacian is no-data (a border pixel of the
\* derivative grid) is no-data, written or not.
C10_NoDataPropagates ==
    (pc \in {"raster", "done"} /\ IsArray(X_array)) =>
        \A p \in Idx(X_array.n, X_array.m) :
            IsNaN(nabla_array.v[p]) => IsNaN(X_array.v[p])

\* C10 witness: the block of a cell whose window fits was written over border pixels (its F_sky is
\* there), the X_dsc_topo of the border pixel is no-data and the X_dsc_topo of
\* an interior pixel of the same block is a number.
C10_Witness ==
    /\ pc = "raster"
    /\ i = 1
    /\ hrdps_cells[1].coords = <<LargeHalf, LargeHalf>>
    /\ IsArray(X_array)
    /\ IsArray(F_array)
    /\ IsNaN(nabla_array.v[<<0, 0>>])
    /\ F_array.v[<<0, 0>>].k = "fin"
    /\ IsNaN(X_array.v[<<0, 0>>])
    /\ F_array.v[<<1, 1>>] = F_array.v[<<0, 0>>]
    /\ X_array.v[<<1, 1>>].k = "fin"

(***************************************************************************)
(* Properties of the two passes over the coarse cells.                     *)
(***************************************************************************)
\* The window of half size h around the centroid's grid index exceeds the grid.
OutOfBounds(coords, h) ==
    \/ coords[1] - h < 0
    \/ coords[1] + h > dem.n - 1
    \/ coords[2] - h < 0
    \/ coords[2] + h > dem.m - 1

\* The pixels of the grid in the large window around a grid index.
LargeWindow(coords) ==
    {p \in Idx(dem.n, dem.m) :
        /\ coords[1] - LargeHalf <= p[1] /\ p[1] <= coords[1] + LargeHalf
        /\ coords[2] - LargeHalf <= p[2] /\ p[2] <= coords[2] + LargeHalf}

AllNaN(gdf_row) == IsNaN(gdf_row.mu) /\ IsNaN(gdf_row.xi) /\ IsNaN(gdf_row.F_sky)

\* The raster-mode loop is about to process the cell at position i + 1.
AtRasterStep == pc = "raster" /\ i < Len(hrdps_cells) /\ i' = i + 1

\* The attribute pass is about to process the cell at position i + 1.
AtAttributeStep == pc = "attribute" /\ i < Len(hrdps_cells) /\ i' = i + 1

\* C1: raster mode: when the processing of a cell fails (the wrapper takes
\* its except branch), both output rasters are left exactly as they were.
C1_FailureLeavesRasters ==
    [][(AtRasterStep /\ TryRaises(hrdps_cells[i + 1], F_array, X_array, nabla_array)) =>
          (F_array' = F_array /\ X_array' = X_array)]_vars

\* The cells at positions 1 .. k of the loop were all processed without failure.
ProcessedOK(k) ==
    \A j \in 1 .. k : ~VectorizeRaises(subset_array(nabla_array, hrdps_cells[j].coords))

\* The values the wrapper computes for the cell at position k.
CellMu(k) == compute_mean_squared_slope(subset_array(dem, hrdps_cells[k].coords), delta_x)
CellF(k) == compute_sky_view_factor(CellMu(k), compute_typical_width(CellMu(k), Std(dem)), L)
CellX(k, p) == compute_downscaling_factor(nabla_array.v[p], CellMu(k))

\* C2: raster mode, last write wins: after the loop every pixel in the large
\* window of two or more successfully processed cells holds, in both rasters,
\* the value computed for the cell processed last among them.
C2_LastWriteWins ==
    pc = "done" =>
        \A p \in Idx(dem.n, dem.m) :
            LET S == {k \in 1 .. Len(hrdps_cells) :
                         ProcessedOK(k) /\ p \in LargeWindow(hrdps_cells[k].coords)}
                last == CHOOSE k \in S : \A j \in S : j <= k
            IN  Cardinality(S) >= 2 =>
                    /\ IsArray(F_array) /\ F_array.v[p] = CellF(last)
                    /\ IsArray(X_array) /\ X_array.v[p] = CellX(last, p)

\* C3: in both modes a cell whose centroid is closer than the window half
\* size to an edge of the grid is rejected: its attributes are no-data, the
\* rasters are not written for it.
C3_OutOfBoundsRejected ==
    [][/\ (AtAttributeStep /\ OutOfBounds(hrdps_cells[i + 1].coords, SmallHalf)) =>
              AllNaN(hrdps_cells'[i + 1])
       /\ (AtRasterStep /\ OutOfBounds(hrdps_cells[i + 1].coords, LargeHalf)) =>
              (F_array' = F_array /\ X_array' = X_array)]_vars

\* The small window of a cell is degenerate: its mean squared slope is 0.
DegenerateSlope(gdf_row) ==
    IsZero(compute_mean_squared_slope(small_window(dem, gdf_row.coords), delta_x))

\* C4: attribute mode: every processed cell whose window exceeds the grid or
\* has mu = 0 has all three attributes no-data, and no processed cell has a
\* mixture of no-data and other attributes.
C4_FailedCellAllNoData ==
    pc = "attribute" =>
        \A k \in 1 .. i :
            /\ (OutOfBounds(hrdps_cells[k].coords, SmallHalf) \/ DegenerateSlope(hrdps_cells[k]))
                   => AllNaN(hrdps_cells[k])
            /\ HasNaN(hrdps_cells[k]) => AllNaN(hrdps_cells[k])

\* C5: mu = 0 is signalled as a failure: no xi (infinite or NaN) and no F_sky
\* or X_dsc_topo derived from mu = 0 is in the attribute table or in the
\* output rasters.
C5_DegenerateSlopeSignalled ==
    /\ \A k \in 1 .. Len(hrdps_cells) : ~IsZero(hrdps_cells[k].mu)
    /\ IsArray(F_array) => \A p \in Idx(F_array.n, F_array.m) :
           F_array.v[p].k = "fin" => F_array.v[p].a[1] # 0
    /\ IsArray(X_array) => \A p \in Idx(X_array.n, X_array.m) :
           X_array.v[p].k = "fin" => X_array.v[p].b[1] # 0

\* C6: raster mode: during and after the loop every pixel of either raster
\* that lies in no processed cell's large window holds the no-data it was
\* initialised with.
C6_UncoveredStaysNoData ==
    pc \in {"raster", "done"} =>
        \A p \in Idx(dem.n, dem.m) :
            (\A k \in 1 .. i : p \notin LargeWindow(hrdps_cells[k].coords)) =>
                /\ IsArray(F_array) /\ F_array.v[p] = NaN
                /\ IsArray(X_array) /\ X_array.v[p] = NaN

\* A pixel of a raster holds a computed number.
Filled(raster, p) == IsArray(raster) /\ raster.v[p].k = "fin"

\* C8: raster mode: a pixel that holds a computed value is never put back to
\* no-data or to a sentinel by a later step.
C8_MonotoneFill ==
    [][\A p \in Idx(dem.n, dem.m) :
          /\ Filled(F_array, p) => Filled(F_array', p)
          /\ Filled(X_array, p) => Filled(X_array', p)]_vars

\* x <= y for two fractions with positive denominators.
FracLe(x, y) == x[1] * y[2] <= y[1] * x[2]

\* x <= y for two floats that are finite, inf or -inf.
FloatLe(x, y) ==
    \/ x.k = "ninf"
    \/ y.k = "inf"
    \/ x.k = "fin" /\ y.k = "fin" /\ FracLe(x.a, y.a)

\* The slope and the typical width that identify a finite F_sky.
SkyMuOf(F) == Fin(F.a, NoFrac)
SkyXiOf(F) == IF F.b = NoFrac THEN Inf ELSE Fin(F.b, NoFrac)

\* F1 <= F2 for two finite sky view factors of the same slope: 1 - g e1 <=
\* 1 - g e2 iff g e2 <= g e1, iff g = 0 or e2 <= e1, and exp is increasing.
SkyLe(F1, F2) ==
    \/ SkyG(SkyMuOf(F1)) = "zero"
    \/ FloatLe(SkyExponent(SkyXiOf(F2), L), SkyExponent(SkyXiOf(F1), L))

\* C11: for a fixed slope and L the sky view factor is non-decreasing in the
\* typical width xi >= 0 (a wider xi never gives a smaller F_sky), and for
\* every slope mu > 0 the result lies in (0, 1].
C11_SkyViewMonotoneBounded ==
    (pc = "sky" /\ i = Len(hrdps_cells)) =>
        \A j \in 1 .. Len(hrdps_cells) :
            /\ hrdps_cells[j].F_sky.k = "fin"
            /\ \A k \in 1 .. Len(hrdps_cells) :
                  FloatLe(hrdps_cells[j].xi, hrdps_cells[k].xi) =>
                      SkyLe(hrdps_cells[j].F_sky, hrdps_cells[k].F_sky)
            /\ ~IsZero(hrdps_cells[j].mu) =>
                  SkyRange(SkyMuOf(hrdps_cells[j].F_sky), SkyXiOf(hrdps_cells[j].F_sky), L)
                      \in {"unit", "one"}

\* C11 witness: for the steepest window, the widths L / MaxXi and MaxXi * L
\* give two different factors inside (0, 1), the narrower one the smaller.
C11_Witness ==
    /\ pc = "sky"
    /\ i = 2
    /\ dem = RowRamp(2, 2, MaxSlope)
    /\ hrdps_cells[1].xi = Fin(Frac(L * L, MaxXi * MaxXi), NoFrac)
    /\ hrdps_cells[2].xi = Fin(Frac(MaxXi * MaxXi * L * L, 1), NoFrac)
    /\ SkyLe(hrdps_cells[1].F_sky, hrdps_cells[2].F_sky)
    /\ ~SkyLe(hrdps_cells[2].F_sky, hrdps_cells[1].F_sky)
    /\ SkyRange(hrdps_cells[1].mu, hrdps_cells[1].xi, L) = "unit"

\* (z[i, j] - z[i + 1, j])^2 + (z[i, j] - z[i, j + 1])^2 at every pixel that
\* has a lower and a right neighbour in the window.
ForwardDifferences(arr) ==
    [p \in Idx(arr.n - 1, arr.m - 1) |->
        (arr.v[p] - arr.v[<<p[1] + 1, p[2]>>]) * (arr.v[p] - arr.v[<<p[1] + 1, p[2]>>])
        + (arr.v[p] - arr.v[<<p[1], p[2] + 1>>]) * (arr.v[p] - arr.v[<<p[1], p[2] + 1>>])]

\* C12: on an n x m window with n, m >= 2 the two cropped difference arrays
\* both have the shape (n-1) x (m-1), entry (i, j) of the first is the
\* difference of pixel (i, j) and its lower neighbour and entry (i, j) of the
\* second the difference of pixel (i, j) and its right neighbour, so that no
\* entry is computed on padding, and the averaged quantity is the mean over
\* 0 <= i < n-1, 0 <= j < m-1 of
\* (z[i,j] - z[i+1,j])^2 + (z[i,j] - z[i,j+1])^2.
C12_AlignedDifferences ==
    (pc = "fn" /\ mu_res # Unset /\ dem.n >= 2 /\ dem.m >= 2) =>
        LET m1 == member_1(dem)
            m2 == member_2(dem)
        IN  /\ m1.n = dem.n - 1 /\ m1.m = dem.m - 1
            /\ m2.n = dem.n - 1 /\ m2.m = dem.m - 1
            /\ \A p \in Idx(dem.n - 1, dem.m - 1) :
                  /\ Abs(m1.v[p]) = Abs(dem.v[p] - dem.v[<<p[1] + 1, p[2]>>])
                  /\ Abs(m2.v[p]) = Abs(dem.v[p] - dem.v[<<p[1], p[2] + 1>>])
            /\ mu_res = Fin(Frac(SumOver(dem.n - 1, dem.m - 1, ForwardDifferences(dem)),
                                 (dem.n - 1) * (dem.m - 1) * delta_x * delta_x * 2), NoFrac)

\* C12 witness: the slope of a 3 x MaxWin bowl, whose differences grow with
\* the row and the column: at (1, 2) they are 3 and 5.
C12_Witness ==
    /\ pc = "fn"
    /\ dem = Bowl(3, MaxWin)
    /\ mu_res # Unset
    /\ mu_res.k = "fin"
    /\ mu_res.a[1] > 0
    /\ Abs(member_1(dem).v[<<1, 2>>]) = 3
    /\ Abs(member_2(dem).v[<<1, 2>>]) = 5

\* The step from old to new assigned to the raster exactly the pixels of the
\* block, giving them the values of the function value, and kept the rest.
BlockWritten(old, new, block, value) ==
    /\ IsArray(old)
    /\ IsArray(new)
    /\ \A p \in Idx(dem.n, dem.m) :
          new.v[p] = IF p \in block THEN value[p] ELSE old.v[p]

\* C13: raster mode: every per-cell step either writes the block
\* [r-LargeHalf, r+LargeHalf] x [c-LargeHalf, c+LargeHalf] of the cell in both
\* the F_sky raster (the cell's F_sky) and the X_dsc_topo raster (the cell's
\* downscaling factors), or modifies neither raster.
C13_RastersPaired ==
    [][AtRasterStep =>
          LET block == LargeWindow(hrdps_cells[i + 1].coords)
          IN  \/ F_array' = F_array /\ X_array' = X_array
              \/ /\ BlockWritten(F_array, F_array', block, [p \in block |-> CellF(i + 1)])
                 /\ BlockWritten(X_array, X_array', block, [p \in block |-> CellX(i + 1, p)])]_vars

=============================================================================
